---- MODULE Spec2Model ----
(***************************************************************************)
(* A model of the RAG ingestion and retrieval pipeline:                    *)
(*   data_loader.py  load_and_chunk_pdf, embed_texts and its tenacity      *)
(*                   retry decorator, embed_texts_batch                    *)
(*   vector_db.py    QdrantStorage: construction, upsert, search,          *)
(*                   health_check, get_collection_info                     *)
(*   main.py         rag_ingest_pdf and rag_query_pdf_ai with their        *)
(*                   durable steps, the health and readiness probes        *)
(* The specifications share the variables:                                 *)
(*   SpecCall      single calls of the decorated functions, of the         *)
(*                 constructor and of the probes against a backend that    *)
(*                 answers as scripted                                     *)
(*   SpecBatch     calls of embed_texts_batch and of embed_texts           *)
(*   SpecIngest    one ingestion invocation run by the step orchestrator   *)
(*   SpecReingest  ingestion invocations one after the other               *)
(*   SpecQuery     one query invocation run by the step orchestrator       *)
(*   SpecConcurrent  two ingestion invocations of one source at a time     *)
(***************************************************************************)
EXTENDS Integers, Sequences, FiniteSets, TLC

VARIABLES
    store,   \* the backend collection: [exists, dim, points]
    self,    \* the QdrantStorage instance last constructed, or NoStore
    call,    \* the last call made in SpecCall: what was called and its outcome
    inv,     \* the ingestion (or query) invocation in progress; in
             \* SpecConcurrent the invocation of every worker
    hist,    \* the completed ingestions, in order (SpecReingest); the
             \* writes the backend has applied (SpecConcurrent)
    obs      \* what one invocation has done so far (SpecIngest, SpecQuery)

vars == <<store, self, call, inv, hist, obs>>

----------------------------------------------------------------------------
(* Bounds of the model *)

MaxTexts == 2        \* longest list of texts, chunks or points in one call
MaxChunks == 2       \* most chunks a document yields
MaxIngestions == 2   \* ingestion events delivered in one behaviour
MaxStepAttempts == 2 \* attempts the orchestrator gives one step
MaxCrashes == 1      \* crashes of the worker during one invocation
MaxBatchTexts == 4   \* longest list of texts passed to embed_texts_batch
MaxBatchSize == 3    \* largest batch_size passed to embed_texts_batch

(* Program constants *)

EmbedStopAfterAttempt == 3
StoreStopAfterAttempt == 3
StatusOk == 200              \* JSONResponse status of a healthy probe
StatusUnavailable == 503     \* ... of a degraded one, and of "Not ready"
DefaultTopK == 5              \* top_k of a query event that gives none
EmbedWaitMultiplier == 1    \* wait_exponential(multiplier=1, min=2, max=10)
EmbedWaitMin == 2
EmbedWaitMax == 10
StoreWaitMultiplier == 1    \* wait_exponential(multiplier=1, min=1, max=5)
StoreWaitMin == 1
StoreWaitMax == 5

----------------------------------------------------------------------------
(* Exception classes.  LibraryParent is the base class of the classes of   *)
(* openai, qdrant_client, tenacity and the builtins that the except        *)
(* clauses and retry predicates meet; Parent adds the application's own    *)
(* hierarchy (exceptions.py).                                              *)

LibraryParent(c) ==
    CASE c = "RateLimitError"            -> "APIStatusError"
      [] c = "InternalServerError"       -> "APIStatusError"
      [] c = "BadRequestError"           -> "APIStatusError"
      [] c = "AuthenticationError"       -> "APIStatusError"
      [] c = "APIStatusError"            -> "APIError"
      [] c = "APIConnectionError"        -> "APIError"
      [] c = "APIError"                  -> "OpenAIError"
      [] c = "OpenAIError"               -> "Exception"
      [] c = "UnexpectedResponse"        -> "ApiException"
      [] c = "ResponseHandlingException" -> "ApiException"
      [] c = "ApiException"              -> "Exception"
      [] c = "RetryError"                -> "Exception"
      [] c = "TypeError"                 -> "Exception"
      [] c = "IndexError"                -> "Exception"
      [] c = "HTTPException"             -> "Exception"
      [] c = "FileNotFoundError"         -> "Exception"
      [] c = "ValueError"                -> "Exception"
      [] OTHER                           -> "object"

Parent(c) ==
    CASE c = "EmbeddingError"            -> "RAGException"
      [] c = "VectorDBError"             -> "RAGException"
      [] c = "SearchError"               -> "RAGException"
      [] c = "PDFLoadError"              -> "RAGException"
      [] c = "ChunkingError"             -> "RAGException"
      [] c = "RAGException"              -> "Exception"
      [] OTHER                           -> LibraryParent(c)

RECURSIVE IsInstance(_, _)
IsInstance(c, base) ==
    IF c = base THEN TRUE
    ELSE IF c \in {"object", "none", "ok"} THEN FALSE
    ELSE IsInstance(Parent(c), base)

(* An exception value: its class, the details the constructor stores and   *)
(* the class of the error it wraps.                                        *)
NoExc == [type |-> "none", operation |-> "none", collection |-> "none",
          model |-> "none", text_count |-> -1, file_path |-> <<>>,
          original |-> "none"]

RAGException(type, original) == [NoExc EXCEPT !.type = type, !.original = original]

EmbeddingError(model, text_count, original) ==
    [RAGException("EmbeddingError", original) EXCEPT
        !.model = model, !.text_count = text_count]

VectorDBError(operation, collection, original) ==
    [RAGException("VectorDBError", original) EXCEPT
        !.operation = operation, !.collection = collection]

SearchError(original) == RAGException("SearchError", original)

PDFLoadError(file_path, original) ==
    [RAGException("PDFLoadError", original) EXCEPT !.file_path = file_path]

ChunkingError(original) == RAGException("ChunkingError", original)

(* An exception of a library, as the backend client raises it. *)
Raised(type) == [NoExc EXCEPT !.type = type]

(* tenacity's RetryError, raised when the stop condition is met while the  *)
(* last attempt failed with a retryable exception (reraise is not set).    *)
RetryError(last) == [NoExc EXCEPT !.type = "RetryError", !.original = last]

----------------------------------------------------------------------------
(* Settings (config.py) *)

OpenaiEmbedDim == 3072
OpenaiEmbedModel == "text-embedding-3-large"
QdrantCollection == "docs"

----------------------------------------------------------------------------
(* Values *)

Texts == {"x", "y"}
Dims == {OpenaiEmbedDim, 1536}

SeqsUpTo(S, n) == UNION {[1..k -> S] : k \in 0..n}

(* The embedding the backend returns for a text. *)
Embedding(t) == <<"vec", t>>

(* The answers of the embeddings endpoint and of the Qdrant client. *)
EmbedOutcomes == {"ok", "RateLimitError", "InternalServerError",
                  "BadRequestError", "AuthenticationError", "TypeError"}
StoreOutcomes == {"ok", "UnexpectedResponse", "ResponseHandlingException"}

(* What a function body hands to its caller (and to the retry wrapper):    *)
(* a return value or an exception, whether the backend was called, and the *)
(* points of the collection afterwards.                                    *)
NoRet == [n |-> -1, list |-> <<>>, sources |-> <<>>, ok |-> FALSE]
Returns(n, list, sources, called, pts) ==
    [ret |-> [NoRet EXCEPT !.n = n, !.list = list, !.sources = sources],
     exc |-> NoExc, called |-> called, points |-> pts]
Raises(e, called, pts) ==
    [ret |-> NoRet, exc |-> e, called |-> called, points |-> pts]

NoArgs == [texts |-> <<>>, ids |-> <<>>, vectors |-> <<>>, payloads |-> <<>>,
           ranked |-> <<>>, top_k |-> 0, dim |-> 0, set_order |-> <<>>,
           batch_size |-> 0]

(* No QdrantStorage instance (a function that is no method has none). *)
NoStore == [collection |-> "none", dim |-> 0]

----------------------------------------------------------------------------
(* data_loader.embed_texts, the decorated body *)

(* Variants of the body, as a slip in it would leave it. *)
EmbedTextsBodyWrapAll(texts, outcome, pts) ==
    IF texts = <<>> THEN Returns(0, <<>>, <<>>, FALSE, pts)
    ELSE IF outcome = "ok"
    THEN Returns(Len(texts), [i \in 1..Len(texts) |-> Embedding(texts[i])],
                 <<>>, TRUE, pts)
    ELSE Raises(EmbeddingError(OpenaiEmbedModel, Len(texts), outcome), TRUE, pts)

EmbedTextsBodyNoCount(texts, outcome, pts) ==
    IF texts = <<>> THEN Returns(0, <<>>, <<>>, FALSE, pts)
    ELSE IF outcome = "ok"
    THEN Returns(Len(texts), [i \in 1..Len(texts) |-> Embedding(texts[i])],
                 <<>>, TRUE, pts)
    ELSE IF IsInstance(outcome, "APIError") \/ IsInstance(outcome, "RateLimitError")
    THEN Raises(Raised(outcome), TRUE, pts)
    ELSE Raises(EmbeddingError(OpenaiEmbedModel, -1, outcome), TRUE, pts)

EmbedTextsBodyNoEmptyCheck(texts, outcome, pts) ==
    IF outcome = "ok"
    THEN Returns(Len(texts), [i \in 1..Len(texts) |-> Embedding(texts[i])],
                 <<>>, TRUE, pts)
    ELSE IF IsInstance(outcome, "APIError") \/ IsInstance(outcome, "RateLimitError")
    THEN Raises(Raised(outcome), TRUE, pts)
    ELSE Raises(EmbeddingError(OpenaiEmbedModel, Len(texts), outcome), TRUE, pts)

EmbedTextsBody(texts, outcome, pts) ==
    IF texts = <<>> THEN Returns(0, <<>>, <<>>, FALSE, pts)
    ELSE IF outcome = "ok"
    THEN Returns(Len(texts), [i \in 1..Len(texts) |-> Embedding(texts[i])],
                 <<>>, TRUE, pts)
    ELSE IF IsInstance(outcome, "APIError") \/ IsInstance(outcome, "RateLimitError")
    THEN Raises(Raised(outcome), TRUE, pts)
    ELSE Raises(EmbeddingError(OpenaiEmbedModel, Len(texts), outcome), TRUE, pts)

----------------------------------------------------------------------------
(* The backend's upsert: a point replaces the point that has its id. *)

PointsOf(a) ==
    [i \in 1..Len(a.ids) |->
        [id |-> a.ids[i], vector |-> a.vectors[i], payload |-> a.payloads[i]]]

(* A variant of the backend that keeps the point an id already has. *)
BackendUpsertKeepOld(pts, batch) ==
    LET first(id) == batch[CHOOSE i \in 1..Len(batch) :
                             /\ batch[i].id = id
                             /\ \A j \in 1..(i - 1) : batch[j].id # id]
    IN pts \cup {first(batch[i].id) : i \in {j \in 1..Len(batch) :
                                \A p \in pts : p.id # batch[j].id}}

BackendUpsert(pts, batch) ==
    LET written == {batch[i] : i \in 1..Len(batch)}
        last(id) == batch[CHOOSE i \in 1..Len(batch) :
                            /\ batch[i].id = id
                            /\ \A j \in (i+1)..Len(batch) : batch[j].id # id]
    IN {p \in pts : \A q \in written : q.id # p.id}
         \cup {last(q.id) : q \in written}

(* A variant of the body without the return for empty ids. *)
UpsertBodyNoEmptyCheck(slf, a, outcome, pts) ==
    IF Len(a.vectors) < Len(a.ids) \/ Len(a.payloads) < Len(a.ids)
    THEN Raises(VectorDBError("upsert", slf.collection, "IndexError"), FALSE, pts)
    ELSE IF outcome = "ok"
    THEN Returns(Len(a.ids), <<>>, <<>>, TRUE, BackendUpsert(pts, PointsOf(a)))
    ELSE Raises(VectorDBError("upsert", slf.collection, outcome), TRUE, pts)

(* QdrantStorage.upsert, the decorated body *)
UpsertBody(slf, a, outcome, pts) ==
    IF a.ids = <<>> THEN Returns(0, <<>>, <<>>, FALSE, pts)
    ELSE IF Len(a.vectors) < Len(a.ids) \/ Len(a.payloads) < Len(a.ids)
    THEN Raises(VectorDBError("upsert", slf.collection, "IndexError"), FALSE, pts)
    ELSE IF outcome = "ok"
    THEN Returns(Len(a.ids), <<>>, <<>>, TRUE, BackendUpsert(pts, PointsOf(a)))
    ELSE Raises(VectorDBError("upsert", slf.collection, outcome), TRUE, pts)

(* payload.get(key, ""), and getattr(r, "payload", None) or {} for a point  *)
(* that has no payload                                                     *)
Get(payload, key) == IF key \in DOMAIN payload THEN payload[key] ELSE ""

(* list(sources): a set lists its members in the order of its hash table,  *)
(* which depends on the hashes of the members (for strings, on the hash    *)
(* seed of the process) and not on the order of insertion; set_order is    *)
(* that order for the run at hand.                                         *)
ListOfSet(S, set_order) == SelectSeq(set_order, LAMBDA s : s \in S)

(* A variant that takes the source of every point returned. *)
SearchBodyAllSources(slf, a, outcome, pts) ==
    IF outcome = "ok"
    THEN LET withText == SelectSeq(a.ranked, LAMBDA r : Get(r.payload, "text") # "")
         IN Returns(Len(withText),
                    [i \in 1..Len(withText) |-> Get(withText[i].payload, "text")],
                    ListOfSet({Get(a.ranked[i].payload, "source") :
                                   i \in 1..Len(a.ranked)}, a.set_order),
                    TRUE, pts)
    ELSE Raises(SearchError(outcome), TRUE, pts)

(* QdrantStorage.search, the decorated body; ranked is the backend's answer *)
SearchBody(slf, a, outcome, pts) ==
    IF outcome = "ok"
    THEN LET withText == SelectSeq(a.ranked, LAMBDA r : Get(r.payload, "text") # "")
         IN Returns(Len(withText),
                    [i \in 1..Len(withText) |-> Get(withText[i].payload, "text")],
                    ListOfSet({Get(withText[i].payload, "source") :
                                   i \in 1..Len(withText)}, a.set_order),
                    TRUE, pts)
    ELSE Raises(SearchError(outcome), TRUE, pts)

----------------------------------------------------------------------------
(* The retry decorators *)

Body(fn, slf, a, outcome, pts) ==
    CASE fn = "embed_texts" -> EmbedTextsBody(a.texts, outcome, pts)
      [] fn = "upsert"      -> UpsertBody(slf, a, outcome, pts)
      [] fn = "search"      -> SearchBody(slf, a, outcome, pts)

EmbedRetryIf(type) == IsInstance(type, "APIError") \/ IsInstance(type, "RateLimitError")
StoreRetryIf(type) == IsInstance(type, "UnexpectedResponse")

RetryIf(fn, type) ==
    IF fn = "embed_texts" THEN EmbedRetryIf(type) ELSE StoreRetryIf(type)
StopAfter(fn) ==
    IF fn = "embed_texts" THEN EmbedStopAfterAttempt ELSE StoreStopAfterAttempt

Min(a, b) == IF a < b THEN a ELSE b
Max(a, b) == IF a > b THEN a ELSE b

(* exp_base ** n for the exp_base the decorators leave at its default, 2 *)
RECURSIVE Exp(_)
Exp(n) == IF n = 0 THEN 1 ELSE 2 * Exp(n - 1)

(* wait_exponential(multiplier, min, max): the seconds slept after the     *)
(* attempt numbered attempt_number has failed,                             *)
(*   max(max(0, min), min(multiplier * exp_base ** (attempt_number - 1),   *)
(*                        max)).                                           *)
WaitExponential(multiplier, min, max, attempt_number) ==
    Max(Max(0, min), Min(multiplier * Exp(attempt_number - 1), max))

Wait(fn, attempt_number) ==
    IF fn = "embed_texts"
    THEN WaitExponential(EmbedWaitMultiplier, EmbedWaitMin, EmbedWaitMax,
                         attempt_number)
    ELSE WaitExponential(StoreWaitMultiplier, StoreWaitMin, StoreWaitMax,
                         attempt_number)

(* One decorated call: the body is run with the backend answering          *)
(* script[attempt]; an exception for which the retry predicate holds is    *)
(* retried until the stop condition, any other is raised as it is; the     *)
(* call sleeps Wait(fn, i) seconds between attempt i and the next, and      *)
(* slept lists these delays.                                               *)
RECURSIVE Retrying(_, _, _, _, _, _, _)
Retrying(fn, slf, a, script, attempt, calls, pts) ==
    LET r == Body(fn, slf, a, script[attempt], pts)
        n == calls + (IF r.called THEN 1 ELSE 0)
        out(ret, exc) == [ret |-> ret, exc |-> exc, attempts |-> attempt,
                          calls |-> n, points |-> r.points,
                          slept |-> [i \in 1..(attempt - 1) |-> Wait(fn, i)]]
    IN IF r.exc = NoExc THEN out(r.ret, NoExc)
       ELSE IF ~RetryIf(fn, r.exc.type) THEN out(NoRet, r.exc)
       ELSE IF attempt >= StopAfter(fn) THEN out(NoRet, RetryError(r.exc.type))
       ELSE Retrying(fn, slf, a, script, attempt + 1, n, r.points)

Decorated(fn, slf, a, script, pts) == Retrying(fn, slf, a, script, 1, 0, pts)

Scripts(fn) ==
    [1..StopAfter(fn) -> IF fn = "embed_texts" THEN EmbedOutcomes ELSE StoreOutcomes]

(* The scripts that answer with one error of each kind: success, an error  *)
(* the retry predicate of fn holds for, and one it does not hold for; the  *)
(* answers after one that ends the retrying are never asked for and are    *)
(* left at "ok".                                                           *)
KindScripts(fn) ==
    LET kinds == IF fn = "embed_texts"
                 THEN {"ok", "RateLimitError", "TypeError"}
                 ELSE {"ok", "UnexpectedResponse", "ResponseHandlingException"}
    IN {s \in [1..StopAfter(fn) -> kinds] :
          \A i, j \in 1..StopAfter(fn) :
             (i < j /\ ~RetryIf(fn, s[i])) => s[j] = "ok"}

----------------------------------------------------------------------------
(* data_loader.load_and_chunk_pdf *)

(* A document of the reader is a record that has a text or has none; a     *)
(* text is written as the sequence of the chunks the sentence splitter     *)
(* cuts it to, the empty text as <<>>.                                     *)
EmptyPage == [text |-> <<>>]
TextlessPage == [label |-> "image"]

(* getattr(d, "text", None), taken as a condition *)
HasText(d) == "text" \in DOMAIN d /\ d.text # <<>>

(* splitter.split_text(t) *)
SplitText(t) == [i \in 1..Len(t) |-> t[i]]

(* chunks after the loop `for t in texts: chunks.extend(split_text(t))` *)
RECURSIVE ChunksOf(_)
ChunksOf(texts) ==
    IF texts = <<>> THEN <<>> ELSE SplitText(Head(texts)) \o ChunksOf(Tail(texts))

(* A variant without the check for an empty list of texts. *)
LoadAndChunkPdfNoCheck(path, pdf, readOut, splitOut) ==
    IF readOut # "ok"
    THEN [chunks |-> <<>>, exc |-> PDFLoadError(path, readOut), splits |-> 0]
    ELSE LET withText == SelectSeq(pdf, HasText)
             texts == [i \in 1..Len(withText) |-> withText[i].text]
         IN IF splitOut # "ok" /\ texts # <<>>
            THEN [chunks |-> <<>>, exc |-> ChunkingError(splitOut), splits |-> 1]
            ELSE [chunks |-> ChunksOf(texts), exc |-> NoExc, splits |-> Len(texts)]

(* pdf is what PDFReader().load_data(file=path) returns when it answers    *)
(* "ok"; splits counts the calls of split_text, the first of which raises  *)
(* when splitOut is an error.                                              *)
LoadAndChunkPdf(path, pdf, readOut, splitOut) ==
    IF readOut # "ok"
    THEN [chunks |-> <<>>, exc |-> PDFLoadError(path, readOut), splits |-> 0]
    ELSE LET withText == SelectSeq(pdf, HasText)
             texts == [i \in 1..Len(withText) |-> withText[i].text]
         IN IF texts = <<>>
            THEN [chunks |-> <<>>, exc |-> PDFLoadError(path, "none"), splits |-> 0]
            ELSE IF splitOut # "ok"
            THEN [chunks |-> <<>>, exc |-> ChunkingError(splitOut), splits |-> 1]
            ELSE [chunks |-> ChunksOf(texts), exc |-> NoExc, splits |-> Len(texts)]

----------------------------------------------------------------------------
(* data_loader.embed_texts_batch *)

(* A variant that takes one text too few. *)
BatchSliceShort(texts, i, batch_size) ==
    SubSeq(texts, i + 1, Min(i + batch_size - 1, Len(texts)))

(* texts[i:i + batch_size], i counted from 0 *)
BatchSlice(texts, i, batch_size) ==
    SubSeq(texts, i + 1, Min(i + batch_size, Len(texts)))

(* The loop over range(0, len(texts), batch_size) from offset i on, the     *)
(* b-th call of embed_texts answered as scripts[b] says: all_embeddings,    *)
(* the backend calls so far and the batches passed so far are carried      *)
(* along; an exception of embed_texts ends the loop.                       *)
RECURSIVE EmbedBatchFrom(_, _, _, _, _, _, _, _)
EmbedBatchFrom(texts, batch_size, i, b, scripts, all_embeddings, calls, sent) ==
    IF i >= Len(texts)
    THEN [ret |-> [NoRet EXCEPT !.n = Len(all_embeddings), !.list = all_embeddings],
          exc |-> NoExc, attempts |-> b - 1, calls |-> calls, sent |-> sent]
    ELSE LET batch == BatchSlice(texts, i, batch_size)
             r == Decorated("embed_texts", NoStore, [NoArgs EXCEPT !.texts = batch],
                            scripts[b], {})
         IN IF r.exc # NoExc
            THEN [ret |-> NoRet, exc |-> r.exc, attempts |-> b,
                  calls |-> calls + r.calls, sent |-> Append(sent, batch)]
            ELSE EmbedBatchFrom(texts, batch_size, i + batch_size, b + 1, scripts,
                                all_embeddings \o r.ret.list, calls + r.calls,
                                Append(sent, batch))

EmbedTextsBatch(texts, batch_size, scripts) ==
    IF texts = <<>>
    THEN [ret |-> [NoRet EXCEPT !.n = 0], exc |-> NoExc, attempts |-> 0,
          calls |-> 0, sent |-> <<>>]
    ELSE EmbedBatchFrom(texts, batch_size, 0, 1, scripts, <<>>, 0, <<>>)

----------------------------------------------------------------------------
(* QdrantStorage.__init__ and _ensure_collection *)

Absent == [exists |-> FALSE, dim |-> 0, distance |-> "none", points |-> {}]

(* The answers of the client to collection_exists and create_collection    *)
(* are existsOut and createOut; st is the backend's collection; creates    *)
(* counts the create_collection requests issued.                           *)

(* A variant that creates the collection without asking whether it exists. *)
EnsureCollectionAlwaysCreate(slf, st, existsOut, createOut) ==
    IF createOut = "ok"
    THEN [exc |-> NoExc, creates |-> 1,
          store |-> [exists |-> TRUE, dim |-> slf.dim, distance |-> "Cosine",
                     points |-> {}]]
    ELSE [exc |-> VectorDBError("create_collection", slf.collection, createOut),
          creates |-> 1, store |-> st]

EnsureCollection(slf, st, existsOut, createOut) ==
    IF existsOut # "ok"
    THEN [exc |-> VectorDBError("create_collection", slf.collection, existsOut),
          creates |-> 0, store |-> st]
    ELSE IF ~st.exists
    THEN IF createOut = "ok"
         THEN [exc |-> NoExc, creates |-> 1,
               store |-> [exists |-> TRUE, dim |-> slf.dim, distance |-> "Cosine",
                          points |-> {}]]
         ELSE [exc |-> VectorDBError("create_collection", slf.collection, createOut),
               creates |-> 1, store |-> st]
    ELSE [exc |-> NoExc, creates |-> 0, store |-> st]

(* dim = 0 stands for the argument left out (None). *)
QdrantStorageInit(dim, st, connectOut, existsOut, createOut) ==
    LET slf == [collection |-> QdrantCollection,
                dim |-> IF dim = 0 THEN OpenaiEmbedDim ELSE dim]
    IN IF connectOut # "ok"
       THEN [self |-> NoStore, exc |-> VectorDBError("connect", "none", connectOut),
             creates |-> 0, store |-> st]
       ELSE LET r == EnsureCollection(slf, st, existsOut, createOut)
            IN IF r.exc # NoExc
               THEN [self |-> NoStore,
                     exc |-> VectorDBError("connect", "none", r.exc.type),
                     creates |-> r.creates, store |-> r.store]
               ELSE [self |-> slf, exc |-> NoExc, creates |-> r.creates,
                     store |-> r.store]

ConnectOutcomes == {"ok", "ResponseHandlingException"}

----------------------------------------------------------------------------
(* QdrantStorage.health_check and get_collection_info *)

(* A variant that lets the failure of the backend through. *)
HealthCheckBodyRaising(slf, outcome, pts) ==
    IF outcome = "ok"
    THEN [Returns(-1, <<>>, <<>>, TRUE, pts) EXCEPT !.ret.ok = TRUE]
    ELSE Raises(Raised(outcome), TRUE, pts)

(* health_check: client.get_collections() answers outcome *)
HealthCheckBody(slf, outcome, pts) ==
    IF outcome = "ok"
    THEN [Returns(-1, <<>>, <<>>, TRUE, pts) EXCEPT !.ret.ok = TRUE]
    ELSE [Returns(-1, <<>>, <<>>, TRUE, pts) EXCEPT !.ret.ok = FALSE]

(* The empty dictionary, and the dictionary that holds an error. *)
NoInfo == [name |-> "none", points_count |-> -1, error |-> "none"]
ErrorInfo(e) == [NoInfo EXCEPT !.error = e]

(* get_collection_info: the statistics of the collection, or a dictionary  *)
(* that holds the error; never raises.  The backend answers a request for  *)
(* a collection it does not have with an error.                            *)
GetCollectionInfo(slf, st, outcome) ==
    IF outcome = "ok" /\ st.exists
    THEN [NoInfo EXCEPT !.name = slf.collection,
                        !.points_count = Cardinality(st.points)]
    ELSE ErrorInfo(IF outcome = "ok" THEN "UnexpectedResponse" ELSE outcome)

----------------------------------------------------------------------------
(* SpecCall: a caller that constructs stores and calls the decorated       *)
(* functions one at a time, reading each outcome before the next call.     *)

Idle == [fn |-> "none", args |-> NoArgs, script |-> <<>>, ret |-> NoRet,
         exc |-> NoExc, attempts |-> 0, calls |-> 0, before |-> Absent,
         made |-> FALSE, sent |-> <<>>, slept |-> <<>>]

NoInv == [pc |-> "idle", gen |-> 0, data |-> <<>>, pdf |-> <<>>, src |-> <<>>,
          doc |-> <<>>, count0 |-> 0, memo_load |-> FALSE, memo_upsert |-> -1,
          attempts |-> 0, crashes |-> 0, vecs |-> <<>>]
NoObs == [loads |-> 0, splits |-> 0, started |-> 0, embedCalls |-> 0, embedOk |-> 0,
          upserts |-> 0, upsertOk |-> 0, reran |-> FALSE, err |-> NoExc]

PointIds == {"id1", "id2"}
Payloads == {[source |-> "a", text |-> "x"], [source |-> "b", text |-> "y"],
             [source |-> "a", text |-> ""], [source |-> "b"]}

(* The orders in which a set of source identifiers may list its members. *)
SetOrders == {<<"a", "b">>, <<"b", "a">>}

(* The arguments a caller passes to upsert: one id and one payload per     *)
(* point, and one vector per point or one too few; with no ids, vectors    *)
(* and payloads of any length.                                             *)
UpsertArgs ==
    {[NoArgs EXCEPT !.ids = ids, !.payloads = pls,
                    !.vectors = [i \in 1..n |-> Embedding("x")]] :
        ids \in SeqsUpTo(PointIds, MaxTexts), pls \in SeqsUpTo(Payloads, MaxTexts),
        n \in 0..MaxTexts}

(* What the backend may answer to a similarity query limited to k: the k   *)
(* nearest points (all of them when there are fewer), in some order.       *)
Ranked(pts, k) ==
    LET n == IF Cardinality(pts) < k THEN Cardinality(pts) ELSE k
    IN {r \in [1..n -> pts] : \A i, j \in 1..n : i # j => r[i] # r[j]}

Made(fn, a, script, r, st) ==
    [fn |-> fn, args |-> a, script |-> script, ret |-> r.ret, exc |-> r.exc,
     attempts |-> r.attempts, calls |-> r.calls, before |-> st,
     made |-> r.exc = NoExc, sent |-> <<>>, slept |-> r.slept]

Construct ==
    /\ call = Idle
    /\ \E dim \in Dims \cup {0}, c \in ConnectOutcomes, e, k \in StoreOutcomes :
         LET r == QdrantStorageInit(dim, store, c, e, k)
         IN /\ store' = r.store
            /\ self' = r.self
            /\ call' = [Idle EXCEPT !.fn = "init", !.args = [NoArgs EXCEPT !.dim = dim],
                                    !.script = <<c, e, k>>, !.exc = r.exc,
                                    !.attempts = 1, !.calls = r.creates,
                                    !.before = store, !.made = r.self # NoStore]
    /\ UNCHANGED <<inv, hist, obs>>

CallEmbedTexts ==
    /\ call = Idle
    /\ \E texts \in SeqsUpTo(Texts, MaxTexts), script \in Scripts("embed_texts") :
         LET a == [NoArgs EXCEPT !.texts = texts]
         IN call' = Made("embed_texts", a, script,
                         Decorated("embed_texts", self, a, script, store.points), store)
    /\ UNCHANGED <<store, self, inv, hist, obs>>

CallUpsert ==
    /\ call = Idle
    /\ self # NoStore
    /\ \E a \in UpsertArgs, script \in Scripts("upsert") :
         /\ \/ a.ids = <<>>
            \/ /\ Len(a.payloads) = Len(a.ids)
               /\ Len(a.vectors) \in {Len(a.ids) - 1, Len(a.ids)}
         /\ LET r == Decorated("upsert", self, a, script, store.points)
            IN /\ store' = [store EXCEPT !.points = r.points]
               /\ call' = Made("upsert", a, script, r, store)
    /\ UNCHANGED <<self, inv, hist, obs>>

CallSearch ==
    /\ call = Idle
    /\ self # NoStore
    /\ \E k \in 1..MaxTexts, script \in Scripts("search"), order \in SetOrders :
         \E ranked \in Ranked(store.points, k) :
            LET a == [NoArgs EXCEPT !.ranked = ranked, !.top_k = k,
                                    !.set_order = order]
            IN call' = Made("search", a, script,
                            Decorated("search", self, a, script, store.points), store)
    /\ UNCHANGED <<store, self, inv, hist, obs>>

CallHealthCheck ==
    /\ call = Idle
    /\ self # NoStore
    /\ \E h \in StoreOutcomes :
         LET r == HealthCheckBody(self, h, store.points)
         IN call' = [Idle EXCEPT !.fn = "health_check", !.script = <<h>>,
                                 !.ret = r.ret, !.exc = r.exc, !.attempts = 1,
                                 !.calls = 1, !.before = store,
                                 !.made = r.exc = NoExc]
    /\ UNCHANGED <<store, self, inv, hist, obs>>

(* The answers of the backend while a probe is served: to the client's     *)
(* construction, collection_exists, create_collection, get_collections and *)
(* get_collection.                                                         *)
ProbeScripts ==
    {<<c, e, k, h, i>> : c \in ConnectOutcomes,
                         e \in {"ok", "UnexpectedResponse"},
                         k \in {"ok", "UnexpectedResponse"},
                         h \in StoreOutcomes, i \in {"ok", "UnexpectedResponse"}}

(* A variant that answers every probe with 200. *)
StatusCodeAlwaysOk(qdrant_healthy) == StatusOk

(* status_code = 200 if qdrant_healthy else 503 *)
StatusCode(qdrant_healthy) == IF qdrant_healthy THEN StatusOk ELSE StatusUnavailable

(* health_status, the content of the response *)
HealthStatus(qdrant_healthy, qdrant_info) ==
    [status |-> IF qdrant_healthy THEN "healthy" ELSE "degraded",
     qdrant |-> IF qdrant_healthy THEN "healthy" ELSE "unhealthy",
     info |-> qdrant_info]

(* GET /health: main.health_check.  The instance is local to the request. *)
GetHealth ==
    /\ call = Idle
    /\ \E script \in ProbeScripts :
         LET s == QdrantStorageInit(0, store, script[1], script[2], script[3])
             h == HealthCheckBody(s.self, script[4], s.store.points)
             qdrant_healthy == s.exc = NoExc /\ h.exc = NoExc /\ h.ret.ok
             info == IF s.exc # NoExc THEN ErrorInfo(s.exc.type)
                     ELSE IF h.exc # NoExc THEN ErrorInfo(h.exc.type)
                     ELSE IF qdrant_healthy
                     THEN GetCollectionInfo(s.self, s.store, script[5])
                     ELSE NoInfo
         IN /\ store' = s.store
            /\ call' = [Idle EXCEPT
                         !.fn = "GET /health", !.script = script,
                         !.ret = [NoRet EXCEPT
                                    !.n = StatusCode(qdrant_healthy),
                                    !.ok = qdrant_healthy,
                                    !.list = <<HealthStatus(qdrant_healthy, info)>>],
                         !.attempts = 1, !.calls = s.creates, !.before = store,
                         !.made = TRUE]
    /\ UNCHANGED <<self, inv, hist, obs>>

(* GET /health/ready: main.readiness_check; get_collection is not asked    *)
(* for.  The HTTPException raised in the try block is caught by the        *)
(* handler's own except clause and raised again with the same status.      *)
GetHealthReady ==
    /\ call = Idle
    /\ \E script \in ProbeScripts :
         LET s == QdrantStorageInit(0, store, script[1], script[2], script[3])
             h == HealthCheckBody(s.self, script[4], s.store.points)
             ready == s.exc = NoExc /\ h.exc = NoExc /\ h.ret.ok
         IN /\ script[5] = "ok"
            /\ store' = s.store
            /\ call' = [Idle EXCEPT
                         !.fn = "GET /health/ready", !.script = script,
                         !.ret = [NoRet EXCEPT
                                    !.n = IF ready THEN StatusOk
                                          ELSE StatusUnavailable,
                                    !.ok = ready,
                                    !.list = IF ready THEN <<[ready |-> TRUE]>>
                                             ELSE <<>>],
                         !.exc = IF ready THEN NoExc ELSE Raised("HTTPException"),
                         !.attempts = 1, !.calls = s.creates, !.before = store,
                         !.made = TRUE]
    /\ UNCHANGED <<self, inv, hist, obs>>

(* The caller has read the outcome. *)
Return ==
    /\ call # Idle
    /\ call' = Idle
    /\ UNCHANGED <<store, self, inv, hist, obs>>

InitCall ==
    /\ store = Absent
    /\ self = NoStore
    /\ call = Idle
    /\ inv = NoInv
    /\ hist = <<>>
    /\ obs = NoObs

NextCall ==
    \/ Construct \/ CallEmbedTexts \/ CallUpsert \/ CallSearch \/ CallHealthCheck
    \/ GetHealth \/ GetHealthReady \/ Return

SpecCall == InitCall /\ [][NextCall]_vars

----------------------------------------------------------------------------
(* SpecBatch: calls of embed_texts_batch and of embed_texts.  To a call of *)
(* embed_texts_batch the backend answers the calls of one batch, the       *)
(* failing-th, as a script says and all others at once.                    *)

AllOk(fn) == [i \in 1..StopAfter(fn) |-> "ok"]

BatchScripts ==
    {[b \in 1..MaxBatchTexts |-> IF b = failing THEN script ELSE AllOk("embed_texts")] :
        failing \in 1..MaxBatchTexts, script \in KindScripts("embed_texts")}

CallEmbedTextsBatch ==
    /\ call = Idle
    /\ \E texts \in SeqsUpTo(Texts, MaxBatchTexts), batch_size \in 1..MaxBatchSize,
          scripts \in BatchScripts :
         LET r == EmbedTextsBatch(texts, batch_size, scripts)
         IN call' = [Idle EXCEPT
                       !.fn = "embed_texts_batch",
                       !.args = [NoArgs EXCEPT !.texts = texts,
                                               !.batch_size = batch_size],
                       !.script = scripts, !.ret = r.ret, !.exc = r.exc,
                       !.attempts = r.attempts, !.calls = r.calls,
                       !.made = TRUE, !.sent = r.sent]
    /\ UNCHANGED <<store, self, inv, hist, obs>>

NextBatch == CallEmbedTextsBatch \/ CallEmbedTexts \/ Return

SpecBatch == InitCall /\ [][NextBatch]_vars

----------------------------------------------------------------------------
(* SpecIngest: rag_ingest_pdf run by the step orchestrator.                *)
(*                                                                         *)
(* The function body is entered from the top at every (re-)run; step.run   *)
(* hands back the recorded output of a step that has one and runs the      *)
(* handler otherwise.  A handler that raises is retried by a new run until *)
(* the attempts are used up; the worker may crash anywhere.                *)
(*   pc: idle | run (at the top of the body)                               *)
(*       | ret_load (_load returned, output not yet recorded)              *)
(*       | upsert (in _upsert, after embed_texts)                          *)
(*       | ret_upsert (_upsert returned, output not yet recorded)          *)
(*       | done | failed                                                   *)

(* The source_id a sender gives. *)
Sources == {<<"a", ":", "1">>}

(* event.data of rag/ingest_pdf: the path "a" of the PDF and, unless the   *)
(* sender leaves it out, a source_id.                                      *)
EventData ==
    {[pdf_path |-> <<"a">>]}
      \cup {[pdf_path |-> <<"a">>, source_id |-> s] : s \in Sources}

(* ctx.event.data.get(key, default) *)
DataGet(data, key, default) == IF key \in DOMAIN data THEN data[key] ELSE default

(* What the PDF of an event chunks to: one to MaxChunks chunks, all with   *)
(* the text of one version of the document.                                *)
Docs == {[i \in 1..n |-> t] : n \in 1..MaxChunks, t \in Texts}

(* The PDF files: one with no page that has a text, and for every list of  *)
(* chunks one that has a page for each chunk after an empty page.          *)
Pdfs ==
    {<<EmptyPage, TextlessPage>>}
      \cup {<<EmptyPage>> \o [i \in 1..Len(doc) |-> [text |-> <<doc[i]>>]] : doc \in Docs}

Digit(d) == CASE d = 0 -> "0" [] d = 1 -> "1" [] d = 2 -> "2" [] d = 3 -> "3"
              [] d = 4 -> "4" [] d = 5 -> "5" [] d = 6 -> "6" [] d = 7 -> "7"
              [] d = 8 -> "8" [] d = 9 -> "9"

RECURSIVE Str(_)
Str(i) == IF i < 10 THEN <<Digit(i)>> ELSE Str(i \div 10) \o <<Digit(i % 10)>>

(* f"{source_id}:{i}" *)
Format(source_id, i) == source_id \o <<":">> \o Str(i)

(* uuid.uuid5(namespace, name): a function of namespace and name; the hash *)
(* is taken to be free of collisions.                                      *)
Uuid5(namespace, name) == [namespace |-> namespace, name |-> name]

(* ids, vectors and payloads that _upsert passes to QdrantStorage.upsert;  *)
(* range(len(chunks)) counts from 0.                                       *)
IngestArgsFreshIds(v) ==
    [NoArgs EXCEPT
        !.ids = [i \in 1..Len(v.doc) |->
                    Uuid5("URL", Format(v.src, i - 1) \o <<"#">> \o Str(v.gen))],
        !.vectors = v.vecs,
        !.payloads = [i \in 1..Len(v.doc) |-> [source |-> v.src, text |-> v.doc[i]]]]

(* A variant that derives every id from the source_id alone. *)
IngestArgsSharedId(v) ==
    [NoArgs EXCEPT
        !.ids = [i \in 1..Len(v.doc) |-> Uuid5("URL", Format(v.src, 0))],
        !.vectors = v.vecs,
        !.payloads = [i \in 1..Len(v.doc) |-> [source |-> v.src, text |-> v.doc[i]]]]

IngestArgs(v) ==
    [NoArgs EXCEPT
        !.ids = [i \in 1..Len(v.doc) |-> Uuid5("URL", Format(v.src, i - 1))],
        !.vectors = v.vecs,
        !.payloads = [i \in 1..Len(v.doc) |-> [source |-> v.src, text |-> v.doc[i]]]]

(* The event rag/ingest_pdf arrives, the limit-th at most; pdf is the file *)
(* at its pdf_path, which stays as it is while the invocation runs.        *)
Trigger(limit) ==
    /\ inv.pc \in {"idle", "done", "failed"}
    /\ inv.gen < limit
    /\ \E data \in EventData, pdf \in Pdfs :
         inv' = [NoInv EXCEPT !.pc = "run", !.gen = inv.gen + 1, !.data = data,
                              !.pdf = pdf, !.count0 = Cardinality(store.points)]
    /\ obs' = NoObs
    /\ UNCHANGED <<store, self, call, hist>>

(* What an observer counts; an unobserved run leaves the counters alone. *)
Observed(track, o) == IF track THEN o ELSE obs

(* A handler raised: the step is run again unless its attempts are used up *)
StepFailed(v) ==
    IF v.attempts + 1 < MaxStepAttempts
    THEN [v EXCEPT !.pc = "run", !.attempts = @ + 1, !.vecs = <<>>]
    ELSE [v EXCEPT !.pc = "failed", !.attempts = @ + 1, !.vecs = <<>>]

(* step.run(id, handler) runs the handler unless the step has an output. *)
StepRunAlways(recorded) == TRUE

StepRun(recorded) == ~recorded

(* step.run("load-and-chunk"): _load; its output is RAGChunkAndSrc(chunks, *)
(* source_id), kept in doc and src.  The observer counts the runs and      *)
(* keeps, of the latest, the calls of split_text and the exception.        *)
RunLoad(track) ==
    /\ inv.pc = "run"
    /\ StepRun(inv.memo_load)
    /\ \E readOut \in {"ok", "FileNotFoundError"}, splitOut \in {"ok", "ValueError"} :
         LET pdf_path == inv.data.pdf_path
             source_id == DataGet(inv.data, "source_id", pdf_path)
             r == LoadAndChunkPdf(pdf_path, inv.pdf, readOut, splitOut)
         IN /\ inv' = IF r.exc = NoExc
                      THEN [inv EXCEPT !.pc = "ret_load", !.src = source_id,
                                       !.doc = r.chunks]
                      ELSE StepFailed(inv)
            /\ obs' = Observed(track, [obs EXCEPT !.loads = @ + 1,
                                                  !.splits = r.splits,
                                                  !.err = r.exc])
    /\ UNCHANGED <<store, self, call, hist>>

RecordLoad ==
    /\ inv.pc = "ret_load"
    /\ inv' = [inv EXCEPT !.pc = "run", !.memo_load = TRUE, !.attempts = 0]
    /\ UNCHANGED <<store, self, call, hist, obs>>

(* step.run("embed-and-upsert"): _upsert, first embed_texts(chunks) *)
RunEmbed(track) ==
    /\ inv.pc = "run"
    /\ inv.memo_load
    /\ StepRun(inv.memo_upsert # -1)
    /\ \E script \in KindScripts("embed_texts") :
         LET a == [NoArgs EXCEPT !.texts = inv.doc]
             r == Decorated("embed_texts", NoStore, a, script, store.points)
             o == [obs EXCEPT !.started = @ + 1, !.embedCalls = @ + r.calls]
         IN IF r.exc = NoExc
            THEN /\ inv' = [inv EXCEPT !.pc = "upsert", !.vecs = r.ret.list]
                 /\ obs' = Observed(track,
                       [o EXCEPT !.embedOk = @ + (IF r.calls > 0 THEN 1 ELSE 0)])
            ELSE /\ inv' = StepFailed(inv)
                 /\ obs' = Observed(track, o)
    /\ UNCHANGED <<store, self, call, hist>>

(* A variant that writes the points one call each instead of one batch. *)
RunUpsertPerPoint(track) ==
    /\ inv.pc = "upsert"
    /\ \E c \in ConnectOutcomes, e, k \in {"ok", "UnexpectedResponse"} :
         LET s == QdrantStorageInit(0, store, c, e, k)
         IN IF s.exc # NoExc
            THEN /\ store' = s.store
                 /\ self' = s.self
                 /\ inv' = StepFailed(inv)
                 /\ obs' = obs
            ELSE \E script \in KindScripts("upsert") :
                   LET r == Decorated("upsert", s.self, IngestArgs(inv), script,
                                      s.store.points)
                       o == [obs EXCEPT !.upserts = @ + r.calls * Len(inv.doc)]
                   IN /\ store' = [s.store EXCEPT !.points = r.points]
                      /\ self' = s.self
                      /\ IF r.exc = NoExc
                         THEN /\ inv' = [inv EXCEPT !.pc = "ret_upsert", !.vecs = <<>>]
                              /\ obs' = Observed(track, [o EXCEPT !.upsertOk =
                                            @ + (IF r.calls > 0 THEN Len(inv.doc) ELSE 0)])
                         ELSE /\ inv' = StepFailed(inv)
                              /\ obs' = Observed(track, o)
    /\ UNCHANGED <<call, hist>>

(* then QdrantStorage().upsert(ids, vecs, payloads) *)
RunUpsert(track) ==
    /\ inv.pc = "upsert"
    /\ \E c \in ConnectOutcomes, e, k \in {"ok", "UnexpectedResponse"} :
         LET s == QdrantStorageInit(0, store, c, e, k)
         IN IF s.exc # NoExc
            THEN /\ store' = s.store
                 /\ self' = s.self
                 /\ inv' = StepFailed(inv)
                 /\ obs' = obs
            ELSE \E script \in KindScripts("upsert") :
                   LET r == Decorated("upsert", s.self, IngestArgs(inv), script,
                                      s.store.points)
                       o == [obs EXCEPT !.upserts = @ + r.calls]
                   IN /\ store' = [s.store EXCEPT !.points = r.points]
                      /\ self' = s.self
                      /\ IF r.exc = NoExc
                         THEN /\ inv' = [inv EXCEPT !.pc = "ret_upsert", !.vecs = <<>>]
                              /\ obs' = Observed(track, [o EXCEPT !.upsertOk =
                                            @ + (IF r.calls > 0 THEN 1 ELSE 0)])
                         ELSE /\ inv' = StepFailed(inv)
                              /\ obs' = Observed(track, o)
    /\ UNCHANGED <<call, hist>>

RecordUpsert ==
    /\ inv.pc = "ret_upsert"
    /\ inv' = [inv EXCEPT !.pc = "run", !.memo_upsert = Len(inv.doc), !.attempts = 0]
    /\ UNCHANGED <<store, self, call, hist, obs>>

(* Both steps have an output: the body returns ingested.model_dump() *)
Finish(track) ==
    /\ inv.pc = "run"
    /\ inv.memo_load
    /\ inv.memo_upsert # -1
    /\ inv' = [inv EXCEPT !.pc = "done"]
    /\ hist' = IF track THEN hist
               ELSE Append(hist, [gen |-> inv.gen, src |-> inv.src, chunks |-> inv.doc,
                                  ids |-> IngestArgs(inv).ids, count0 |-> inv.count0,
                                  count |-> Cardinality(store.points),
                                  ingested |-> inv.memo_upsert])
    /\ UNCHANGED <<store, self, call, obs>>

(* The worker dies; the orchestrator runs the function again from the top  *)
(* with the step outputs it has recorded.                                  *)
Crash(track) ==
    /\ inv.pc \in {"run", "ret_load", "upsert", "ret_upsert"}
    /\ inv.crashes < MaxCrashes
    /\ inv' = [inv EXCEPT !.pc = "run", !.crashes = @ + 1, !.vecs = <<>>]
    /\ obs' = Observed(track, [obs EXCEPT !.reran = @ \/ inv.memo_upsert # -1])
    /\ UNCHANGED <<store, self, call, hist>>

InitIngest ==
    /\ store = Absent
    /\ self = NoStore
    /\ call = Idle
    /\ inv = NoInv
    /\ hist = <<>>
    /\ obs = NoObs

(* One invocation, its steps and their side effects counted. *)
NextIngest ==
    \/ Trigger(1) \/ RunLoad(TRUE) \/ RecordLoad \/ RunEmbed(TRUE)
    \/ RunUpsert(TRUE) \/ RecordUpsert \/ Finish(TRUE) \/ Crash(TRUE)

SpecIngest == InitIngest /\ [][NextIngest]_vars

(* Several invocations one after the other, the completed ones recorded. *)
NextReingest ==
    \/ Trigger(MaxIngestions) \/ RunLoad(FALSE) \/ RecordLoad \/ RunEmbed(FALSE)
    \/ RunUpsert(FALSE) \/ RecordUpsert \/ Finish(FALSE) \/ Crash(FALSE)

SpecReingest == InitIngest /\ [][NextReingest]_vars

----------------------------------------------------------------------------
(* SpecQuery: rag_query_pdf_ai run by the step orchestrator over a         *)
(* collection that holds some points.  inv is the query invocation:        *)
(*   pc: idle | run (at the top of the body)                               *)
(*       | ret_search (_search returned, output not yet recorded)          *)
(*       | done | failed                                                   *)
(* The step llm-answer is a request the orchestrator makes itself and      *)
(* records with its answer.                                                *)

NoFound == [contexts |-> <<>>, sources |-> <<>>]
NoPrompt == [context_block |-> <<>>, question |-> "none"]
NoResult == [answer |-> "none", sources |-> <<>>, num_contexts |-> -1]

NoQuery == [pc |-> "idle", data |-> <<>>, found |-> NoFound, memo_search |-> FALSE,
            res |-> "none", attempts |-> 0, crashes |-> 0]
NoQueryObs == [searches |-> 0, infers |-> 0, inferOk |-> 0, prompt |-> NoPrompt,
               result |-> NoResult]

(* int(v) of a top_k given as a number or as its decimal digits *)
DigitValue(c) == CHOOSE d \in 0..9 : Digit(d) = c

RECURSIVE ParseInt(_)
ParseInt(digits) ==
    IF Len(digits) = 1 THEN DigitValue(digits[1])
    ELSE 10 * ParseInt(SubSeq(digits, 1, Len(digits) - 1))
           + DigitValue(digits[Len(digits)])

IntOf(v) == IF "int" \in DOMAIN v THEN v.int ELSE ParseInt(v.str)

(* event.data of rag/query_pdf_ai *)
QueryData ==
    {[question |-> q] : q \in Texts}
      \cup {[question |-> q, top_k |-> [int |-> k]] : q \in Texts, k \in 1..MaxTexts}
      \cup {[question |-> q, top_k |-> [str |-> <<"1">>]] : q \in Texts}

(* The collections a query may meet: none, or one that holds some of these *)
(* points.                                                                 *)
QueryPoints ==
    {[id |-> "id1", vector |-> Embedding("x"), payload |-> [source |-> "a", text |-> "x"]],
     [id |-> "id2", vector |-> Embedding("y"), payload |-> [source |-> "b", text |-> "y"]],
     [id |-> "id3", vector |-> Embedding("x"), payload |-> [source |-> "a", text |-> ""]]}

QueryStores ==
    {Absent} \cup {[exists |-> TRUE, dim |-> OpenaiEmbedDim, distance |-> "Cosine",
                    points |-> P] : P \in SUBSET QueryPoints}

(* A variant that puts only the first context into the prompt. *)
ContextBlockFirstOnly(contexts) ==
    [i \in 1..Min(1, Len(contexts)) |-> <<"- ", contexts[i]>>]

(* "\n\n".join(f"- {c}" for c in found.contexts), as the list of its items *)
ContextBlock(contexts) == [i \in 1..Len(contexts) |-> <<"- ", contexts[i]>>]

(* user_content: the context block and the question *)
UserContent(contexts, question) ==
    [context_block |-> ContextBlock(contexts), question |-> question]

QueryStepFailed(v) ==
    IF v.attempts + 1 < MaxStepAttempts
    THEN [v EXCEPT !.pc = "run", !.attempts = @ + 1]
    ELSE [v EXCEPT !.pc = "failed", !.attempts = @ + 1]

TriggerQuery ==
    /\ inv.pc = "idle"
    /\ \E data \in QueryData : inv' = [NoQuery EXCEPT !.pc = "run", !.data = data]
    /\ UNCHANGED <<store, self, call, hist, obs>>

(* step.run("embed-and-search"): _search(question, top_k) *)
RunSearch ==
    /\ inv.pc = "run"
    /\ StepRun(inv.memo_search)
    /\ \E es \in KindScripts("embed_texts"), c \in ConnectOutcomes,
          e, k \in {"ok", "UnexpectedResponse"}, ss \in KindScripts("search"),
          order \in SetOrders :
         LET question == inv.data.question
             top_k == IntOf(DataGet(inv.data, "top_k", [int |-> DefaultTopK]))
             r == Decorated("embed_texts", NoStore, [NoArgs EXCEPT !.texts = <<question>>],
                            es, store.points)
             s == QdrantStorageInit(0, store, c, e, k)
         IN /\ obs' = [obs EXCEPT !.searches = @ + 1]
            /\ IF r.exc # NoExc
               THEN inv' = QueryStepFailed(inv) /\ UNCHANGED <<store, self>>
               ELSE /\ store' = s.store
                    /\ self' = s.self
                    /\ IF s.exc # NoExc
                       THEN inv' = QueryStepFailed(inv)
                       ELSE \E ranked \in Ranked(s.store.points, top_k) :
                              LET query_vec == r.ret.list[1]
                                  a == [NoArgs EXCEPT !.vectors = <<query_vec>>,
                                                      !.ranked = ranked, !.top_k = top_k,
                                                      !.set_order = order]
                                  f == Decorated("search", s.self, a, ss, s.store.points)
                              IN inv' = IF f.exc # NoExc THEN QueryStepFailed(inv)
                                        ELSE [inv EXCEPT
                                                !.pc = "ret_search",
                                                !.found = [contexts |-> f.ret.list,
                                                           sources |-> f.ret.sources]]
    /\ UNCHANGED <<call, hist>>

RecordSearch ==
    /\ inv.pc = "ret_search"
    /\ inv' = [inv EXCEPT !.pc = "run", !.memo_search = TRUE, !.attempts = 0]
    /\ UNCHANGED <<store, self, call, hist, obs>>

(* step.ai.infer("llm-answer", body): the request carries user_content; the *)
(* model answers with a choice, with no choice, or the request fails.      *)
RunInfer ==
    /\ inv.pc = "run"
    /\ inv.memo_search
    /\ StepRun(inv.res # "none")
    /\ \E out \in {"ok", "no_choices", "APIError"} :
         LET user_content == UserContent(inv.found.contexts, inv.data.question)
             o == [obs EXCEPT !.infers = @ + 1, !.prompt = user_content]
         IN IF out = "APIError"
            THEN inv' = QueryStepFailed(inv) /\ obs' = o
            ELSE /\ inv' = [inv EXCEPT !.res = out, !.attempts = 0]
                 /\ obs' = [o EXCEPT !.inferOk = @ + 1]
    /\ UNCHANGED <<store, self, call, hist>>

(* answer = res["choices"][0]...; return answer, sources, num_contexts *)
FinishQuery ==
    /\ inv.pc = "run"
    /\ inv.memo_search
    /\ inv.res # "none"
    /\ IF inv.res = "ok"
       THEN /\ inv' = [inv EXCEPT !.pc = "done"]
            /\ obs' = [obs EXCEPT !.result =
                          [answer |-> "answer", sources |-> inv.found.sources,
                           num_contexts |-> Len(inv.found.contexts)]]
       ELSE inv' = QueryStepFailed(inv) /\ obs' = obs
    /\ UNCHANGED <<store, self, call, hist>>

CrashQuery ==
    /\ inv.pc \in {"run", "ret_search"}
    /\ inv.crashes < MaxCrashes
    /\ inv' = [inv EXCEPT !.pc = "run", !.crashes = @ + 1]
    /\ UNCHANGED <<store, self, call, hist, obs>>

InitQuery ==
    /\ store \in QueryStores
    /\ self = NoStore
    /\ call = Idle
    /\ inv = NoQuery
    /\ hist = <<>>
    /\ obs = NoQueryObs

NextQuery ==
    \/ TriggerQuery \/ RunSearch \/ RecordSearch \/ RunInfer \/ FinishQuery
    \/ CrashQuery

(* The orchestrator goes on with a function whose step has an output. *)
SpecQuery == InitQuery /\ [][NextQuery]_vars /\ WF_vars(RunInfer)

----------------------------------------------------------------------------
(* Properties of single calls (SpecCall) *)

Always(script, S) == \A i \in 1..Len(script) : script[i] \in S
Transient == {c \in EmbedOutcomes : IsInstance(c, "APIError")}
Called(fn) == call.fn = fn /\ call.attempts > 0

UpsertWrites ==
    /\ Called("upsert")
    /\ call.args.ids # <<>>
    /\ Len(call.args.vectors) = Len(call.args.ids)

(* C1: upsert retries a transient backend error: a write that fails with   *)
(* UnexpectedResponse and then succeeds makes the call return the number   *)
(* of points, and a write that always fails with UnexpectedResponse is     *)
(* attempted exactly 3 times before VectorDBError (operation upsert, the   *)
(* collection name) is raised.                                             *)
C1_UpsertRetriesTransient ==
    UpsertWrites =>
      /\ (call.script[1] = "UnexpectedResponse" /\ call.script[2] = "ok"
            => call.exc = NoExc /\ call.ret.n = Len(call.args.ids))
      /\ (Always(call.script, {"UnexpectedResponse"})
            => /\ call.calls = 3
               /\ call.exc.type = "VectorDBError"
               /\ call.exc.operation = "upsert"
               /\ call.exc.collection = QdrantCollection)

(* C2: search is retried like upsert: a query that fails with              *)
(* UnexpectedResponse once and then succeeds returns its result, one that  *)
(* always fails so is attempted 3 times, and a non-transient failure       *)
(* raises SearchError after a single attempt.                              *)
C2_SearchRetriesTransient ==
    Called("search") =>
      /\ (call.script[1] = "UnexpectedResponse" /\ call.script[2] = "ok"
            => call.exc = NoExc /\ call.calls = 2)
      /\ (Always(call.script, {"UnexpectedResponse"}) => call.calls = 3)
      /\ (call.script[1] = "ResponseHandlingException"
            => call.calls = 1 /\ call.exc.type = "SearchError")

(* C3: when the embedding backend raises a transient error (an APIError,   *)
(* RateLimitError included) on every attempt, embed_texts calls it exactly *)
(* 3 times and fails with RetryError, which is no EmbeddingError.          *)
C3_EmbedExhaustion ==
    (Called("embed_texts") /\ call.args.texts # <<>>
        /\ Always(call.script, Transient))
      => /\ call.calls = 3
         /\ call.exc.type = "RetryError"
         /\ ~IsInstance(call.exc.type, "EmbeddingError")
         /\ ~IsInstance("EmbeddingError", call.exc.type)

C3_Witness ==
    /\ Called("embed_texts")
    /\ call.args.texts # <<>>
    /\ Always(call.script, {"RateLimitError"})
    /\ call.calls = 3
    /\ call.exc.type = "RetryError"

(* C4: a non-transient embedding failure (malformed request, failed        *)
(* authentication, an error outside the API) is never retried: the backend *)
(* is called exactly once and EmbeddingError with the model name and the   *)
(* number of texts is raised.                                              *)
NonTransient == {"BadRequestError", "AuthenticationError", "TypeError"}

C4_NonTransientNotRetried ==
    (Called("embed_texts") /\ call.args.texts # <<>>
        /\ call.script[1] \in NonTransient)
      => /\ call.calls = 1
         /\ call.exc = EmbeddingError(OpenaiEmbedModel, Len(call.args.texts),
                                      call.script[1])

----------------------------------------------------------------------------
(* Properties of one ingestion invocation (SpecIngest) *)

(* C6: a step that has an output is never executed again, under any        *)
(* failures and re-runs: once load-and-chunk has an output the PDF is not  *)
(* loaded again, and once embed-and-upsert has an output no embedding call *)
(* and no upsert is issued.                                                *)
C6_NoReexecution ==
    [][ /\ inv.memo_load => obs'.loads = obs.loads
        /\ inv.memo_upsert # -1 =>
              /\ obs'.started = obs.started
              /\ obs'.embedCalls = obs.embedCalls
              /\ obs'.upserts = obs.upserts ]_vars

C6_Witness ==
    /\ inv.memo_load
    /\ inv.memo_upsert # -1
    /\ obs.reran
    /\ obs.loads = 1
    /\ obs.started >= 2

(* C7 as stated: in one invocation the embedding request and the upsert    *)
(* are each performed successfully at most once.                           *)
C7_AtMostOnce == obs.embedOk <= 1 /\ obs.upsertOk <= 1

(* C7 as amended: side effects are at most once per attempt of the step:   *)
(* each run of the embed-and-upsert handler performs at most one           *)
(* successful embedding request and, after it, at most one successful      *)
(* upsert; a handler that fails or dies before its output is recorded is   *)
(* run again whole.                                                        *)
C7_AtMostOncePerAttempt ==
    /\ obs.embedOk <= obs.started
    /\ obs.upsertOk <= obs.embedOk
    /\ (inv.memo_upsert # -1 /\ inv.doc # <<>>) => obs.upsertOk >= 1

C7_Witness ==
    /\ inv.memo_upsert # -1
    /\ obs.started = 2
    /\ obs.embedOk = 2
    /\ obs.upsertOk = 1

----------------------------------------------------------------------------
(* Properties of repeated ingestion (SpecReingest) *)

SameIngestion(h, g) == h.src = g.src /\ h.chunks = g.chunks

(* C8: ingesting the same source_id with the same chunks again yields the  *)
(* same point ids and leaves one point per id: the second ingestion adds   *)
(* no point, and the count after it is the count after the first.          *)
C8_ReingestIdempotent ==
    /\ \A p, q \in store.points : p.id = q.id => p = q
    /\ \A i, j \in 1..Len(hist) :
         (i < j /\ SameIngestion(hist[i], hist[j])) =>
            /\ hist[j].ids = hist[i].ids
            /\ hist[j].count = hist[j].count0
            /\ hist[j].gen = hist[i].gen + 1 => hist[j].count = hist[i].count

C8_Witness ==
    /\ Len(hist) >= 2
    /\ SameIngestion(hist[1], hist[2])
    /\ Len(hist[1].chunks) = 2
    /\ hist[2].count = 2

(* The points an ingestion of v.doc under v.src writes. *)
LatestPoints(v) ==
    LET a == IngestArgs([v EXCEPT !.vecs = [i \in 1..Len(v.doc) |-> Embedding(v.doc[i])]])
    IN {PointsOf(a)[i] : i \in 1..Len(v.doc)}

(* C9: when an ingestion of a source_id has completed, every point of the  *)
(* collection whose payload source is that source_id was written by it.    *)
C9_FullyReplaces ==
    inv.pc = "done" =>
        \A p \in store.points : p.payload.source = inv.src => p \in LatestPoints(inv)

----------------------------------------------------------------------------
(* Construction over an existing collection (SpecCall) *)

(* C10: constructing a QdrantStorage with a dimension that differs from    *)
(* that of the existing collection raises and returns no store, and leaves *)
(* the collection as it was.                                               *)
C10_DimensionMismatchFatal ==
    (/\ Called("init")
     /\ call.before.exists
     /\ call.before.dim # (IF call.args.dim = 0 THEN OpenaiEmbedDim ELSE call.args.dim))
      => /\ call.exc # NoExc
         /\ self = NoStore
         /\ store = call.before

----------------------------------------------------------------------------
(* Failures of the construction (SpecCall) *)

(* What the client answered during a construction: <<connect, exists,      *)
(* create>>; create_collection is only asked for an absent collection.     *)
ConnectFails == call.script[1] # "ok"
EnsureFails ==
    /\ call.script[1] = "ok"
    /\ \/ call.script[2] # "ok"
       \/ ~call.before.exists /\ call.script[3] # "ok"

(* C11: a failed construction is tagged by the operation that failed: a    *)
(* failure to connect raises VectorDBError with operation connect, a       *)
(* failure while checking for or creating the collection raises            *)
(* VectorDBError with operation create_collection, and neither returns a   *)
(* store instance.                                                         *)
C11_FailureTaggedByOperation ==
    Called("init") =>
      /\ ConnectFails =>
            /\ call.exc.type = "VectorDBError"
            /\ call.exc.operation = "connect"
            /\ ~call.made
      /\ EnsureFails =>
            /\ call.exc.type = "VectorDBError"
            /\ call.exc.operation = "create_collection"
            /\ ~call.made

----------------------------------------------------------------------------
(* The result of a search (SpecCall) *)

Searched == Called("search") /\ call.exc = NoExc

(* The ranks of the points that have a text, and what they carry. *)
TextOf(i) == Get(call.args.ranked[i].payload, "text")
SourceOf(i) == Get(call.args.ranked[i].payload, "source")
Contributing == {i \in 1..Len(call.args.ranked) : TextOf(i) # ""}
FirstRank(s) ==
    CHOOSE i \in Contributing :
        SourceOf(i) = s /\ \A j \in Contributing : SourceOf(j) = s => i <= j

(* C12: the sources of a search result hold each source identifier once,   *)
(* in the order of its first appearance among the ranked points that       *)
(* contributed a context.                                                  *)
C12_SourcesInFirstAppearanceOrder ==
    Searched =>
      LET L == call.ret.sources
      IN /\ {L[i] : i \in 1..Len(L)} = {SourceOf(i) : i \in Contributing}
         /\ \A i, j \in 1..Len(L) :
               i < j => L[i] # L[j] /\ FirstRank(L[i]) < FirstRank(L[j])

(* C13: the contexts of a search result are the non-empty texts of the     *)
(* ranked points in rank order; a point whose text is empty or missing     *)
(* gives neither a context nor a source; an empty answer of the backend    *)
(* gives no contexts and no sources.                                       *)
C13_ContextsAreNonEmptyTexts ==
    Searched =>
      LET L == call.ret.list
          S == call.ret.sources
          pos(i) == Cardinality({j \in Contributing : j <= i})
      IN /\ Len(L) = Cardinality(Contributing)
         /\ \A i \in Contributing : L[pos(i)] = TextOf(i)
         /\ {S[i] : i \in 1..Len(S)} = {SourceOf(i) : i \in Contributing}
         /\ call.args.ranked = <<>> => L = <<>> /\ S = <<>>

C13_Witness ==
    /\ Searched
    /\ Len(call.args.ranked) = 2
    /\ "text" \notin DOMAIN call.args.ranked[1].payload
    /\ SourceOf(1) = "b"
    /\ call.ret.list = <<"x">>
    /\ call.ret.sources = <<"a">>

----------------------------------------------------------------------------
(* Probes and construction: what they do to the backend (SpecCall) *)

Probed == Called("GET /health") \/ Called("GET /health/ready")

(* C14: serving GET /health or GET /health/ready leaves the backend as it  *)
(* was: the collections and their points are the same before and after the *)
(* request, also when the configured collection does not exist.            *)
C14_ProbesLeaveBackendAlone == Probed => store = call.before

ConfiguredDim == IF call.args.dim = 0 THEN OpenaiEmbedDim ELSE call.args.dim

(* C15: a construction issues create_collection exactly when the           *)
(* collection is absent: one request, with the configured dimension and    *)
(* cosine distance, when collection_exists answers false, none when it     *)
(* answers true (the collection is then left as it is), and after every    *)
(* successful construction the collection exists.                          *)
C15_CreatesExactlyWhenAbsent ==
    (Called("init") /\ call.script[1] = "ok" /\ call.script[2] = "ok") =>
      /\ call.calls = IF call.before.exists THEN 0 ELSE 1
      /\ call.before.exists => store = call.before
      /\ (~call.before.exists /\ call.script[3] = "ok") =>
            store = [exists |-> TRUE, dim |-> ConfiguredDim,
                     distance |-> "Cosine", points |-> {}]
      /\ call.made => store.exists

C15_Witness ==
    /\ Called("init")
    /\ ~call.before.exists
    /\ call.made
    /\ call.calls = 1
    /\ store.exists
    /\ store.dim = 1536
    /\ store.distance = "Cosine"

(* C20: health_check never raises: it returns True when listing the        *)
(* collections succeeds and False when the backend call fails, whatever    *)
(* the exception.                                                          *)
C20_HealthCheckNeverRaises ==
    Called("health_check") =>
      /\ call.exc = NoExc
      /\ call.ret.ok = (call.script[1] = "ok")

C20_Witness ==
    /\ Called("health_check")
    /\ call.script[1] = "ResponseHandlingException"
    /\ call.exc = NoExc
    /\ ~call.ret.ok

----------------------------------------------------------------------------
(* Batched embedding (SpecBatch) *)

Ceil(n, k) == (n + k - 1) \div k

Batched == call.fn = "embed_texts_batch" /\ call.made

(* C16: embed_texts_batch(texts, k), k >= 1, with every backend call       *)
(* succeeding at its first attempt, issues ceil(len(texts)/k) backend      *)
(* calls, one per consecutive slice of at most k texts, and returns the    *)
(* slice results concatenated in input order, which is what                *)
(* embed_texts(texts) returns.                                             *)
C16_BatchEqualsWhole ==
    LET texts == call.args.texts
        k == call.args.batch_size
        n == Ceil(Len(texts), k)
        whole == Decorated("embed_texts", NoStore, [NoArgs EXCEPT !.texts = texts],
                           AllOk("embed_texts"), {})
    IN (Batched /\ \A b \in 1..n : call.script[b][1] = "ok") =>
         /\ call.exc = NoExc
         /\ call.calls = n
         /\ Len(call.sent) = n
         /\ \A b \in 1..n :
               /\ Len(call.sent[b]) \in 1..k
               /\ \A j \in 1..Len(call.sent[b]) :
                     call.sent[b][j] = texts[(b - 1) * k + j]
         /\ call.ret.list = whole.ret.list
         /\ call.ret.list = [i \in 1..Len(texts) |-> Embedding(texts[i])]

C16_Witness ==
    /\ Batched
    /\ call.args.texts = <<"x", "y", "x">>
    /\ call.args.batch_size = 2
    /\ call.calls = 2
    /\ call.exc = NoExc
    /\ call.sent = << <<"x", "y">>, <<"x">> >>
    /\ Len(call.ret.list) = 3

----------------------------------------------------------------------------
(* What one ingestion writes, and what it does with a PDF without text     *)
(* (SpecIngest)                                                            *)

(* The point of chunk i (counted from 1) of the invocation. *)
PointOfChunk(i) ==
    [id |-> Uuid5("URL", Format(inv'.src, i - 1)),
     vector |-> Embedding(inv'.doc[i]),
     payload |-> [source |-> inv'.src, text |-> inv'.doc[i]]]

(* C17: a successful ingestion writes one point per chunk in one batch:    *)
(* point i has the id derived from (source_id, i) and the payload          *)
(* {source: source_id, text: chunks[i]}; ids, vectors and payloads passed  *)
(* to upsert are equally long; the ingested count reported is the number   *)
(* of points written.                                                      *)
C17_OnePointPerChunk ==
    [][ /\ inv'.pc = "upsert" =>
              LET a == IngestArgs(inv')
              IN /\ Len(a.ids) = Len(inv'.doc)
                 /\ Len(a.vectors) = Len(a.ids)
                 /\ Len(a.payloads) = Len(a.ids)
        /\ (inv.pc = "upsert" /\ inv'.pc = "ret_upsert") =>
              /\ obs'.upserts = obs.upserts + 1
              /\ store'.points = {PointOfChunk(i) : i \in 1..Len(inv'.doc)}
              /\ Cardinality(store'.points) = Len(inv'.doc)
        /\ inv'.memo_upsert # -1 =>
              /\ inv'.memo_upsert = Cardinality(store'.points)
              /\ inv'.memo_upsert = Len(inv'.doc) ]_vars

C17_Witness ==
    /\ inv.pc = "done"
    /\ Len(inv.doc) = 2
    /\ inv.memo_upsert = 2
    /\ Cardinality(store.points) = 2
    /\ obs.upsertOk = 1

NoPageHasText ==
    \A i \in 1..Len(inv.pdf) :
        "text" \notin DOMAIN inv.pdf[i] \/ inv.pdf[i].text = <<>>

(* The texts of the pages from the i-th on that have one, end to end. *)
RECURSIVE TextFrom(_)
TextFrom(i) ==
    IF i > Len(inv.pdf) THEN <<>>
    ELSE IF "text" \in DOMAIN inv.pdf[i] THEN inv.pdf[i].text \o TextFrom(i + 1)
    ELSE TextFrom(i + 1)

(* C18: when no page of the PDF has a text, load_and_chunk_pdf fails with  *)
(* PDFLoadError that carries the file path (no ChunkingError), before any  *)
(* chunking, and the invocation makes no embedding call and no write to    *)
(* the vector store; when some page has a text, the pages without are      *)
(* skipped.                                                                *)
C18_NoTextIsPDFLoadError ==
    /\ (inv.pc # "idle" /\ NoPageHasText) =>
          /\ obs.loads > 0 =>
                /\ obs.err.type = "PDFLoadError"
                /\ obs.err.file_path = inv.data.pdf_path
          /\ obs.splits = 0
          /\ ~inv.memo_load
          /\ inv.pc \in {"run", "failed"}
          /\ obs.started = 0
          /\ obs.embedCalls = 0
          /\ obs.upserts = 0
          /\ store = Absent
    /\ inv.memo_load => inv.doc # <<>> /\ inv.doc = TextFrom(1)

C18_Witness ==
    /\ inv.pc = "failed"
    /\ NoPageHasText
    /\ obs.loads = MaxStepAttempts
    /\ obs.err = PDFLoadError(inv.data.pdf_path, "none")
    /\ obs.started = 0

----------------------------------------------------------------------------
(* The query pipeline (SpecQuery) *)

TopK == IntOf(DataGet(inv.data, "top_k", [int |-> DefaultTopK]))

(* C19: the query pipeline does not short-circuit on an empty retrieval:   *)
(* once embed-and-search has an output the language model is asked, also   *)
(* with no context, and it answers at most once; a query that returns has  *)
(* had exactly one answer, and its num_contexts is the number of contexts  *)
(* in the prompt, which is at most top_k.                                  *)
C19_Safe ==
    /\ obs.inferOk <= 1
    /\ obs.infers > 0 =>
          /\ inv.memo_search
          /\ Len(obs.prompt.context_block) = Len(inv.found.contexts)
          /\ \A i \in 1..Len(inv.found.contexts) :
                obs.prompt.context_block[i] = <<"- ", inv.found.contexts[i]>>
    /\ inv.pc = "done" =>
          /\ obs.inferOk = 1
          /\ obs.result.num_contexts = Len(obs.prompt.context_block)
          /\ obs.result.num_contexts <= TopK

C19_NeverShortCircuits ==
    /\ []C19_Safe
    /\ (inv.memo_search /\ inv.pc = "run") ~> (obs.infers > 0)

C19_Witness ==
    /\ inv.pc = "done"
    /\ store.points # {}
    /\ inv.found.contexts = <<>>
    /\ obs.inferOk = 1
    /\ obs.prompt.context_block = <<>>
    /\ obs.result.num_contexts = 0

----------------------------------------------------------------------------
(* The answers of the probes (SpecCall) *)

(* What the backend answered while the probe was served: the store could   *)
(* be constructed, and listing the collections succeeded.                  *)
Constructible ==
    /\ call.script[1] = "ok"
    /\ call.script[2] = "ok"
    /\ call.before.exists \/ call.script[3] = "ok"
HealthPasses == call.script[4] = "ok"

(* C21: GET /health/ready answers 200 with ready = true exactly when the   *)
(* store can be constructed and its health check passes, and 503           *)
(* otherwise; GET /health answers 200 with status healthy in that case and *)
(* 503 with status degraded otherwise; no exception of the store leaves    *)
(* either handler.                                                         *)
C21_ProbesAnswerByHealth ==
    /\ Called("GET /health/ready") =>
          /\ (Constructible /\ HealthPasses) =>
                /\ call.ret.n = StatusOk
                /\ call.ret.list = <<[ready |-> TRUE]>>
                /\ call.exc = NoExc
          /\ ~(Constructible /\ HealthPasses) =>
                /\ call.ret.n = StatusUnavailable
                /\ call.ret.list = <<>>
                /\ call.exc.type = "HTTPException"
    /\ Called("GET /health") =>
          /\ call.exc = NoExc
          /\ (Constructible /\ HealthPasses) =>
                /\ call.ret.n = StatusOk
                /\ call.ret.list[1].status = "healthy"
          /\ ~(Constructible /\ HealthPasses) =>
                /\ call.ret.n = StatusUnavailable
                /\ call.ret.list[1].status = "degraded"

C21_Witness ==
    /\ Called("GET /health")
    /\ call.script[1] = "ok"
    /\ call.script[2] = "UnexpectedResponse"
    /\ call.ret.n = StatusUnavailable
    /\ call.ret.list[1].status = "degraded"
    /\ call.ret.list[1].info.error = "VectorDBError"

----------------------------------------------------------------------------
(* The backoff of embed_texts (SpecCall) *)

RECURSIVE SumSeq(_)
SumSeq(q) == IF q = <<>> THEN 0 ELSE Head(q) + SumSeq(Tail(q))

(* C22: in embed_texts the backoff starts at 2 seconds, is capped at 10    *)
(* seconds and increases from one retry to the next: the delay before the  *)
(* second retry is strictly greater than the delay before the first, and   *)
(* the delays of one call sum to at most 20 seconds.                       *)
C22_BackoffIncreases ==
    Called("embed_texts") =>
      /\ Len(call.slept) >= 1 => call.slept[1] = 2
      /\ \A i \in 1..Len(call.slept) : call.slept[i] <= 10
      /\ Len(call.slept) >= 2 => call.slept[2] > call.slept[1]
      /\ SumSeq(call.slept) <= 20

----------------------------------------------------------------------------
(* Empty input (SpecBatch, SpecCall) *)

EmptyTexts(fn) == call.fn = fn /\ call.made /\ call.args.texts = <<>>

(* C23: embed_texts([]) returns [] at once, without a call to the backend  *)
(* and without a retry or a sleep, whatever the backend would answer; so   *)
(* does embed_texts_batch([], k) for every batch size k.                   *)
C23_EmptyTextsNoCall ==
    /\ (call.fn \in {"embed_texts", "embed_texts_batch"} /\ call.args.texts = <<>>) =>
          /\ call.exc = NoExc
          /\ call.ret.n = 0
          /\ call.ret.list = <<>>
          /\ call.calls = 0
          /\ call.slept = <<>>
          /\ call.sent = <<>>
    /\ EmptyTexts("embed_texts") => call.attempts = 1

C23_Witness ==
    /\ EmptyTexts("embed_texts")
    /\ call.script[1] = "RateLimitError"
    /\ call.ret.list = <<>>
    /\ call.calls = 0

EmptyIds == call.fn = "upsert" /\ call.attempts > 0 /\ call.args.ids = <<>>

(* C24: QdrantStorage.upsert with empty ids returns 0 and issues no write  *)
(* to the backend, whatever vectors and payloads come with it and whatever *)
(* the backend would answer: the collection is as it was before the call.  *)
C24_EmptyIdsNoWrite ==
    EmptyIds =>
      /\ call.exc = NoExc
      /\ call.ret.n = 0
      /\ call.calls = 0
      /\ call.attempts = 1
      /\ call.slept = <<>>
      /\ store = call.before

C24_Witness ==
    /\ EmptyIds
    /\ call.args.vectors # <<>>
    /\ call.script[1] = "UnexpectedResponse"
    /\ call.before.points # {}
    /\ call.ret.n = 0
    /\ store.points = call.before.points

----------------------------------------------------------------------------
(* SpecConcurrent: two invocations of rag_ingest_pdf for the same source_id *)
(* run their embed-and-upsert step at the same time against one backend.   *)
(* Each holds its own QdrantStorage and its own chunks; what they share is *)
(* the collection.  The backend answers every request by the state it is   *)
(* in when the request arrives: collection_exists with whether the         *)
(* collection exists, create_collection with an error when it does.  It    *)
(* applies the points of an upsert request in their order, and the points  *)
(* of two requests may alternate.                                          *)
(*   inv[w].pc: run (at the top of _upsert)                                *)
(*       | create (collection_exists answered false)                       *)
(*       | ready (constructed) | writing (upsert request at the backend)   *)
(*       | done | failed                                                   *)
(*   hist: the writes the backend has applied, in the order of application *)

Workers == {1, 2}

NoWorker == [pc |-> "run", src |-> <<>>, doc |-> <<>>, vecs |-> <<>>,
             attempts |-> 0, self |-> NoStore, pending |-> <<>>, err |-> NoExc]

(* The points an ingestion of doc for source src sends, embedded. *)
PointsFor(src, doc) ==
    PointsOf(IngestArgs([src |-> src, doc |-> doc,
                         vecs |-> [i \in 1..Len(doc) |-> Embedding(doc[i])]]))

(* The collection before the two invocations: absent, or holding what an   *)
(* earlier ingestion of the source has left.                               *)
ConcurrentStores ==
    {Absent}
      \cup {[exists |-> TRUE, dim |-> OpenaiEmbedDim, distance |-> "Cosine",
              points |-> {PointsFor(s, d)[i] : i \in 1..Len(d)}] :
                s \in Sources, d \in Docs}

(* vecs = embed_texts(chunks); then QdrantStorage(): the client is built   *)
(* and _ensure_collection asks collection_exists.                          *)
AskExists(w) ==
    /\ inv[w].pc = "run"
    /\ LET v == inv[w]
           e == Decorated("embed_texts", NoStore, [NoArgs EXCEPT !.texts = v.doc],
                          AllOk("embed_texts"), store.points)
           r == QdrantStorageInit(0, store, "ok", "ok", "ok")
       IN inv' = [inv EXCEPT ![w] =
                    IF store.exists
                    THEN [v EXCEPT !.pc = "ready", !.vecs = e.ret.list,
                                   !.self = r.self, !.err = NoExc]
                    ELSE [v EXCEPT !.pc = "create", !.vecs = e.ret.list]]
    /\ UNCHANGED <<store, self, call, hist, obs>>

(* _ensure_collection goes on to create_collection, which the backend      *)
(* refuses for a collection that exists by now: the error leaves __init__  *)
(* as VectorDBError and the step has failed.  The construction acts on the *)
(* answer collection_exists gave it (false), whatever the backend holds    *)
(* by now.                                                                 *)
CreateCollection(w) ==
    /\ inv[w].pc = "create"
    /\ LET v == inv[w]
           r == QdrantStorageInit(0, Absent, "ok", "ok",
                                  IF store.exists THEN "UnexpectedResponse" ELSE "ok")
       IN IF r.exc = NoExc
          THEN /\ store' = r.store
               /\ inv' = [inv EXCEPT ![w] = [v EXCEPT !.pc = "ready", !.self = r.self,
                                                      !.err = NoExc]]
          ELSE /\ store' = store
               /\ inv' = [inv EXCEPT ![w] = [StepFailed(v) EXCEPT !.err = r.exc]]
    /\ UNCHANGED <<self, call, hist, obs>>

(* .upsert(ids, vecs, payloads): the points are built and the request is   *)
(* sent; no ids, no request.                                               *)
SendUpsert(w) ==
    /\ inv[w].pc = "ready"
    /\ LET v == inv[w]
           a == IngestArgs(v)
       IN inv' = [inv EXCEPT ![w] =
                    IF a.ids = <<>> THEN [v EXCEPT !.pc = "done"]
                    ELSE [v EXCEPT !.pc = "writing", !.pending = PointsOf(a)]]
    /\ UNCHANGED <<store, self, call, hist, obs>>

(* The backend applies the next point of the request. *)
ApplyPoint(w) ==
    /\ inv[w].pc = "writing"
    /\ inv[w].pending # <<>>
    /\ LET p == Head(inv[w].pending)
       IN /\ store' = [store EXCEPT !.points = BackendUpsert(@, <<p>>)]
          /\ hist' = Append(hist, [by |-> w, point |-> p])
    /\ inv' = [inv EXCEPT ![w].pending = Tail(@)]
    /\ UNCHANGED <<self, call, obs>>

(* The request is answered; upsert returns and the step is over. *)
UpsertReturns(w) ==
    /\ inv[w].pc = "writing"
    /\ inv[w].pending = <<>>
    /\ inv' = [inv EXCEPT ![w].pc = "done"]
    /\ UNCHANGED <<store, self, call, hist, obs>>

InitConcurrent ==
    /\ store \in ConcurrentStores
    /\ self = NoStore
    /\ call = Idle
    /\ \E s \in Sources :
         inv \in [Workers -> {[NoWorker EXCEPT !.src = s, !.doc = d] : d \in Docs}]
    /\ hist = <<>>
    /\ obs = NoObs

NextConcurrent ==
    \E w \in Workers :
       \/ AskExists(w) \/ CreateCollection(w) \/ SendUpsert(w)
       \/ ApplyPoint(w) \/ UpsertReturns(w)

SpecConcurrent == InitConcurrent /\ [][NextConcurrent]_vars

----------------------------------------------------------------------------
(* Concurrent invocations (SpecConcurrent) *)

Constructed(w) == inv[w].pc \in {"ready", "writing", "done"}

(* C25: when two invocations construct a QdrantStorage for the same        *)
(* collection at the same time, also while the collection is absent, every *)
(* construction succeeds under every interleaving of the exists-checks and *)
(* create calls, and afterwards the one collection exists, with the        *)
(* configured dimension.                                                   *)
C25_ConcurrentConstructionSafe ==
    /\ \A w \in Workers : inv[w].err = NoExc
    /\ (\A w \in Workers : Constructed(w)) =>
          /\ store.exists
          /\ store.dim = OpenaiEmbedDim

BothDone == \A w \in Workers : inv[w].pc = "done"

(* The ids the backend has applied a write to, the latest write to an id,  *)
(* and the points an invocation sends.                                     *)
WrittenIds == {hist[i].point.id : i \in 1..Len(hist)}
LastWrite(id) ==
    hist[CHOOSE i \in 1..Len(hist) :
           /\ hist[i].point.id = id
           /\ \A j \in (i + 1)..Len(hist) : hist[j].point.id # id]
SentBy(w) == {PointsFor(inv[w].src, inv[w].doc)[i] : i \in 1..Len(inv[w].doc)}

(* C26: when two ingestions of one source_id have run at the same time,    *)
(* then under every interleaving of their upserts, once both are complete, *)
(* every point id written exists exactly once in the collection and holds  *)
(* the vector and payload of the write to that id that the backend applied *)
(* last; it holds nothing that neither ingestion wrote.                    *)
C26_LastWriteWins ==
    BothDone =>
      /\ \A w \in Workers : SentBy(w) \subseteq {hist[i].point : i \in 1..Len(hist)}
      /\ \A p, q \in store.points : p.id = q.id => p = q
      /\ \A id \in WrittenIds :
            /\ Cardinality({p \in store.points : p.id = id}) = 1
            /\ \A p \in store.points :
                  p.id = id => /\ p = LastWrite(id).point
                               /\ p \in UNION {SentBy(w) : w \in Workers}

C26_Witness ==
    /\ BothDone
    /\ inv[1].doc # inv[2].doc
    /\ Len(hist) >= 3
    /\ hist[1].by = 1
    /\ hist[2].by = 2
    /\ hist[3].by = 1
    /\ hist[1].point.id = hist[2].point.id
    /\ hist[1].point # hist[2].point
    /\ hist[2].point \in store.points

====
